---------------------------- MODULE Spec2Model ----------------------------
(***************************************************************************)
(* A model of the recursive-descent parser of r9cc (src/src/parse.rs).     *)
(*                                                                         *)
(* The parser is modelled as a stack machine.  Every Rust function of      *)
(* parse.rs is one action of the same name; a call pushes a frame holding  *)
(* the callee's locals, a return pops it and leaves the returned value in  *)
(* `ret`.  A frame's `pc` names the place in the function body where the   *)
(* function resumes after the call it is waiting for.  The token cursor    *)
(* `pos` is 0-based as in the source, and reading tokens[pos] with         *)
(* pos = tokens.len() is Rust's index panic.                               *)
(***************************************************************************)
EXTENDS Integers, Sequences, FiniteSets, TLC

VARIABLES
    tokens,   \* the token sequence handed to parse (read only)
    pos,      \* the cursor `pos` of parse, threaded by &mut through every call
    ENV,      \* the global scope environment (lazy_static ENV)
    stack,    \* the call stack: a sequence of frames, the last one is running
    ret,      \* the value returned by the function that returned last
    status,   \* "running", "done" (parse returned) or "abort" (panic / bad_token)
    err       \* the message of the abort

vars == <<tokens, pos, ENV, stack, ret, status, err>>

-----------------------------------------------------------------------------
(* Tokens (token::Token, token::TokenType).  ty is the TokenType variant;  *)
(* name carries Ident's and Str's string, val carries Num's value and      *)
(* Str's length.                                                           *)

Tok(ty) == [ty |-> ty, name |-> "", val |-> 0]
IdentTok(name) == [ty |-> "Ident", name |-> name, val |-> 0]
NumTok(val) == [ty |-> "Num", name |-> "", val |-> val]
StrTok(str, len) == [ty |-> "Str", name |-> str, val |-> len]

-----------------------------------------------------------------------------
(* Types (impl Type).                                                      *)

\* util::roundup: x rounded up to a multiple of align.  roundup(x, 0) is the
\* wrapped result of (x + 0 - 1) & !(0 - 1); builds that check overflow panic
\* instead (see RoundupOverflows).
roundup(x, align) == IF align = 0 THEN 0 ELSE ((x + align - 1) \div align) * align

Type_new(ty, size) == [ty |-> ty, size |-> size, align |-> size]

\* Type::default(), the placeholder type of a freshly built node.
DefaultTy == [ty |-> "Default", size |-> 0, align |-> 0]

void_ty == Type_new("Void", 0)
char_ty == Type_new("Char", 1)
int_ty == Type_new("Int", 4)

ptr_to(base) == [ty |-> "Ptr", size |-> 8, align |-> 8, base |-> base]

ary_of(base, len) ==
    [ty |-> "Ary", size |-> base.size * len, align |-> base.align,
     base |-> base, len |-> len]

-----------------------------------------------------------------------------
(* Nodes (impl Node, enum NodeType) and scope tags (Scope).                *)

Local(offset) == [kind |-> "Local", offset |-> offset]
Global(label, size, is_extern) ==
    [kind |-> "Global", label |-> label, size |-> size, is_extern |-> is_extern]

None == << >>
Some(x) == <<x>>

\* Node::new(op): the node's type is Type::default().
Node_new(op) == op @@ [ty |-> DefaultTy]
WithTy(node, ty) == [node EXCEPT !.ty = ty]

Num(val) == Node_new([op |-> "Num", val |-> val])
Str(str, len) == Node_new([op |-> "Str", str |-> str, len |-> len])
Ident(name) == Node_new([op |-> "Ident", name |-> name])
Vardef(name, init, scope) ==
    Node_new([op |-> "Vardef", name |-> name, init |-> init, scope |-> scope])
new_binop(ty, lhs, rhs) == Node_new([op |-> "BinOp", tok |-> ty, lhs |-> lhs, rhs |-> rhs])
new_expr(op, expr) == Node_new([op |-> op, expr |-> expr])
If(cond, then, els) == Node_new([op |-> "If", cond |-> cond, then |-> then, els |-> els])
Ternary(cond, then, els) ==
    Node_new([op |-> "Ternary", cond |-> cond, then |-> then, els |-> els])
For(init, cond, inc, body) ==
    Node_new([op |-> "For", init |-> init, cond |-> cond, inc |-> inc, body |-> body])
DoWhile(body, cond) == Node_new([op |-> "DoWhile", body |-> body, cond |-> cond])
Dot(expr, name, offset) ==
    Node_new([op |-> "Dot", expr |-> expr, name |-> name, offset |-> offset])
Call(name, args) == Node_new([op |-> "Call", name |-> name, args |-> args])
Func(name, args, body, stacksize) ==
    Node_new([op |-> "Func", name |-> name, args |-> args, body |-> body,
              stacksize |-> stacksize])
CompStmt(stmts) == Node_new([op |-> "CompStmt", stmts |-> stmts])
VecStmt(stmts) == Node_new([op |-> "VecStmt", stmts |-> stmts])
Null == Node_new([op |-> "Null"])

-----------------------------------------------------------------------------
(* Struct layout (Type::new_struct, Type::set_offset).                     *)

\* member_offset without the rounding: members are packed.
member_offset_packed(off, t) == off

\* The offset set_offset gives a member of type t when the running offset is off.
member_offset(off, t) == roundup(off, t.align)

\* The running offset after that member.
next_offset(off, t) == member_offset(off, t) + t.size

\* The `if let` of set_offset: every member must be a Vardef with a Local scope.
IsMember(node) ==
    /\ node.op = "Vardef"
    /\ node.scope.kind = "Local"

RECURSIVE set_offset_from(_, _, _, _)
\* The loop of set_offset from member i on, with the running off and align.
set_offset_from(members, i, off, align) ==
    IF i > Len(members)
    THEN [off |-> off, align |-> align, members |-> members]
    ELSE LET t == members[i].ty
             placed == [members EXCEPT ![i].scope = Local(member_offset(off, t))]
         IN  set_offset_from(placed, i + 1, next_offset(off, t),
                             IF align < t.align THEN t.align ELSE align)

set_offset(members) == set_offset_from(members, 1, 0, 0)

\* set_offset panics when a member is not a local Vardef.
set_offset_panics(members) == \E i \in 1..Len(members) : ~IsMember(members[i])

new_struct(members) ==
    LET r == set_offset(members)
    IN  [ty |-> "Struct", size |-> roundup(r.off, r.align), align |-> r.align,
         members |-> r.members]

\* new_struct calls roundup with align = 0 (usize underflow in align - 1) when
\* a member has alignment 0 or there is no member at all.
RoundupOverflows(members) ==
    \/ set_offset(members).align = 0
    \/ \E i \in 1..Len(members) : members[i].ty.align = 0

-----------------------------------------------------------------------------
(* The scope environment (struct Env).                                     *)

EmptyMap == << >>
Insert(map, key, value) ==
    [k \in DOMAIN map \cup {key} |-> IF k = key THEN value ELSE map[k]]

\* Env::new(next)
Env_new(next) == [tags |-> EmptyMap, typedefs |-> EmptyMap, next |-> next]


-----------------------------------------------------------------------------
(* The machine: frames, calls, returns and aborts.                         *)

Nil == [op |-> "Nil"]

\* The locals of each function, as they are before its first statement.
Locals(fn) ==
    CASE fn = "parse" -> [v |-> << >>]
      [] fn = "toplevel" -> [is_extern |-> FALSE, ty |-> Nil, name |-> "", args |-> << >>]
      [] fn = "read_type" -> [tag_may |-> None, members |-> << >>]
      [] fn = "read_array" -> [v |-> << >>]
      [] fn = "decl" -> [ty |-> Nil, name |-> "", ary_decl |-> Nil]
      [] fn = "array_init_rval" -> [init |-> << >>, i |-> 0]
      [] fn = "param" -> [ty |-> Nil]
      [] fn = "stmt" -> [cond |-> Nil, then |-> Nil, init |-> Nil, inc |-> Nil,
                         body |-> Nil, stmts |-> << >>, entry_env |-> Nil]
      [] fn = "compound_stmt" -> [stmts |-> << >>, entry_env |-> Nil]
      [] fn = "primary" -> [name |-> "", args |-> << >>]
      [] fn = "conditional" -> [cond |-> Nil, then |-> Nil]
      [] OTHER -> [lhs |-> Nil, op |-> ""]

\* A frame of fn entered with the cursor at p and the by-value argument arg.
\* start remembers the cursor at entry.
NewFrame(fn, p, arg) ==
    [fn |-> fn, pc |-> "start", start |-> p, arg |-> arg] @@ Locals(fn)

top == stack[Len(stack)]
Replace(f) == [stack EXCEPT ![Len(stack)] = f]
Pop == SubSeq(stack, 1, Len(stack) - 1)

RetNode(node) == [k |-> "node", v |-> node]
RetType(ty) == [k |-> "type", v |-> ty]
RetOptType(opt) == [k |-> "opt_type", v |-> opt]
RetNodes(v) == [k |-> "nodes", v |-> v]

Step(p, env, stk, r) ==
    /\ pos' = p
    /\ ENV' = env
    /\ stack' = stk
    /\ ret' = r
    /\ UNCHANGED <<tokens, status, err>>

\* The running function f calls fn with the cursor at p.
CallAt(p, f, fn, arg) == Step(p, ENV, Append(Replace(f), NewFrame(fn, p, arg)), ret)
\* The running function returns r with the cursor at p.
ReturnAt(p, r) == Step(p, ENV, Pop, r)
\* The running function goes on in f with the cursor at p.
GotoAt(p, f) == Step(p, ENV, Replace(f), ret)

\* panic!(msg): the parse is over.
Panic(msg) ==
    /\ status' = "abort"
    /\ err' = msg
    /\ UNCHANGED <<tokens, pos, ENV, stack, ret>>

\* token::bad_token(t, msg) never returns.
bad_token(msg) == Panic(msg)

IndexPanic == "index out of bounds"

Oob(p) == p >= Len(tokens)
tk(p) == tokens[p + 1]
Is(ty, p) == tk(p).ty = ty

\* tokens[p] is read, then A goes on.
Peek(p, A) == IF Oob(p) THEN Panic(IndexPanic) ELSE A

\* expect(ty, tokens, pos) with the cursor at p; A goes on with the cursor at p + 1.
expect(ty, p, A) ==
    Peek(p, IF Is(ty, p) THEN A ELSE bad_token(ty \o " expected"))

\* consume(ty, tokens, pos) with the cursor at p: A when it returns true (the
\* cursor is then p + 1), B when it returns false.
consume(ty, p, A, B) == Peek(p, IF Is(ty, p) THEN A ELSE B)

Running(fn) ==
    /\ status = "running"
    /\ stack # << >>
    /\ top.fn = fn

-----------------------------------------------------------------------------
(* is_typename, read_type, ctype, read_array.                              *)

is_typename(t) ==
    IF t.ty = "Ident"
    THEN t.name \in DOMAIN ENV.typedefs
    ELSE t.ty \in {"Int", "Char", "Void", "Struct"}

\* Lines 213-230 of read_type: the struct's tag and members are known and the
\* cursor is at p.
read_type_struct(tag_may, members, p) ==
    LET found == tag_may # None /\ members = << >> /\ tag_may[1] \in DOMAIN ENV.tags
        members2 == IF found THEN ENV.tags[tag_may[1]] ELSE members
        env == IF tag_may # None /\ members # << >>
               THEN [ENV EXCEPT !.tags = Insert(ENV.tags, tag_may[1], members)]
               ELSE ENV
    IN  IF found /\ members2 = << >>
        THEN Panic("incomplete type")
        ELSE IF tag_may = None /\ members = << >>
        THEN Panic("bad struct definition")
        ELSE IF set_offset_panics(members2)
        THEN Panic("explicit panic")
        ELSE \/ Step(p, env, Pop, RetOptType(Some(new_struct(members2))))
             \/ /\ RoundupOverflows(members2)
                /\ Panic("attempt to subtract with overflow")

\* The member loop of read_type (lines 208-210) with the cursor at p.
read_type_members(f, members, p) ==
    consume("RightBrace", p,
            read_type_struct(f.tag_may, members, p + 1),
            CallAt(p, [f EXCEPT !.pc = "member", !.members = members], "decl", Nil))

\* read_type up to the member loop (lines 185-207).
read_type_start(f) ==
    LET t == tk(f.start)
        p == pos + 1
    IN  CASE t.ty = "Ident" ->
               IF t.name \in DOMAIN ENV.typedefs
               THEN ReturnAt(p, RetOptType(Some(ENV.typedefs[t.name])))
               ELSE ReturnAt(p - 1, RetOptType(None))
          [] t.ty = "Int" -> ReturnAt(p, RetOptType(Some(int_ty)))
          [] t.ty = "Char" -> ReturnAt(p, RetOptType(Some(char_ty)))
          [] t.ty = "Void" -> ReturnAt(p, RetOptType(Some(void_ty)))
          [] t.ty = "Struct" ->
               Peek(p,
                 LET tag_may == IF Is("Ident", p) THEN Some(tk(p).name) ELSE None
                     p2 == IF Is("Ident", p) THEN p + 1 ELSE p
                     g == [f EXCEPT !.tag_may = tag_may]
                 IN  consume("LeftBrace", p2,
                             read_type_members(g, << >>, p2 + 1),
                             read_type_struct(tag_may, << >>, p2)))
          [] OTHER -> ReturnAt(p - 1, RetOptType(None))

read_type ==
    /\ Running("read_type")
    /\ CASE top.pc = "start" -> read_type_start(top)
         [] top.pc = "member" ->
              read_type_members(top, Append(top.members, ret.v), pos)

RECURSIVE ctype_stars(_, _)
\* The `while consume(Mul)` loop of ctype: the number of `*` from p on.
ctype_stars(p, n) ==
    IF ~Oob(p) /\ Is("Mul", p) THEN ctype_stars(p + 1, n + 1) ELSE n

RECURSIVE ptr_n(_, _)
ptr_n(ty, n) == IF n = 0 THEN ty ELSE ptr_n(ptr_to(ty), n - 1)

ctype ==
    /\ Running("ctype")
    /\ CASE top.pc = "start" ->
              Peek(pos, CallAt(pos, [top EXCEPT !.pc = "ty"], "read_type", Nil))
         [] top.pc = "ty" ->
              IF ret.v = None
              THEN bad_token("typename expected")
              ELSE LET n == ctype_stars(pos, 0)
                   IN  Peek(pos + n, ReturnAt(pos + n, RetType(ptr_n(ret.v[1], n))))

RECURSIVE read_array_fold(_, _, _)
\* `for val in v { ty = ary_of(ty, val) }` of read_array, from index i on.
read_array_fold(ty, v, i) ==
    IF i > Len(v) THEN ty ELSE read_array_fold(ary_of(ty, v[i]), v, i + 1)

\* The bracket loop of read_array (lines 504-516) with the cursor at p.
read_array_loop(f, v, p) ==
    consume("LeftBracket", p,
            CallAt(p + 1, [f EXCEPT !.pc = "len", !.v = v], "expr", Nil),
            ReturnAt(p, RetType(read_array_fold(f.arg, v, 1))))

read_array ==
    /\ Running("read_array")
    /\ CASE top.pc = "start" -> read_array_loop(top, << >>, pos)
         [] top.pc = "len" ->
              IF ret.v.op = "Num"
              THEN expect("RightBracket", pos,
                          read_array_loop(top, Append(top.v, ret.v.val), pos + 1))
              ELSE Panic("number expected")

-----------------------------------------------------------------------------
(* decl, array_init_rval, param, expr_stmt.                                *)

\* The bare declaration decl builds: Vardef(name, init, Scope::Local(0)) of type ty.
local_vardef(name, init, ty) == WithTy(Vardef(name, init, Local(0)), ty)

\* The statement list decl returns for an array initializer (lines 537-544).
array_init_stmts(ary_decl, init_ary) == VecStmt(<<ary_decl, init_ary>>)

\* init_element with the index stuck at 0 (`i += 1` forgotten).
init_element_first(ident, i, val) ==
    new_expr("ExprStmt",
             new_binop("Equal", new_expr("Deref", new_binop("Plus", ident, Num(0))), val))

\* The i-th statement array_init_rval builds (lines 562-568): *(ident + i) = val.
init_element(ident, i, val) ==
    new_expr("ExprStmt",
             new_binop("Equal", new_expr("Deref", new_binop("Plus", ident, Num(i))), val))

\* decl after ctype returned (lines 524-528).
decl_name(f) ==
    Peek(pos,
         IF Is("Ident", pos)
         THEN CallAt(pos + 1, [f EXCEPT !.pc = "ary", !.name = tk(pos).name],
                     "read_array", ret.v)
         ELSE bad_token("variable name expected"))

\* decl after read_array returned (lines 528-554).
decl_init(f) ==
    LET ty == ret.v
        g == [f EXCEPT !.ty = ty]
    IN  IF ty.ty = "Void"
        THEN Panic("void variable")
        ELSE consume("Equal", pos,
               consume("LeftBrace", pos + 1,
                 CallAt(pos + 2,
                        [g EXCEPT !.pc = "init_ary",
                                  !.ary_decl = local_vardef(f.name, None, ty)],
                        "array_init_rval", Ident(f.name)),
                 CallAt(pos + 1, [g EXCEPT !.pc = "init"], "assign", Nil)),
               expect("Semicolon", pos,
                 ReturnAt(pos + 1, RetNode(local_vardef(f.name, None, ty)))))

decl ==
    /\ Running("decl")
    /\ CASE top.pc = "start" -> CallAt(pos, [top EXCEPT !.pc = "ty"], "ctype", Nil)
         [] top.pc = "ty" -> decl_name(top)
         [] top.pc = "ary" -> decl_init(top)
         [] top.pc = "init" ->
              expect("Semicolon", pos,
                ReturnAt(pos + 1, RetNode(local_vardef(top.name, Some(ret.v), top.ty))))
         [] top.pc = "init_ary" ->
              expect("Semicolon", pos,
                ReturnAt(pos + 1, RetNode(array_init_stmts(top.ary_decl, ret.v))))

array_init_rval ==
    /\ Running("array_init_rval")
    /\ CASE top.pc = "start" -> CallAt(pos, [top EXCEPT !.pc = "val"], "primary", Nil)
         [] top.pc = "val" ->
              LET init == Append(top.init, init_element(top.arg, top.i, ret.v))
              IN  consume("Comma", pos,
                    CallAt(pos + 1, [top EXCEPT !.init = init, !.i = top.i + 1],
                           "primary", Nil),
                    expect("RightBrace", pos,
                      ReturnAt(pos + 1, RetNode(VecStmt(init)))))

param ==
    /\ Running("param")
    /\ CASE top.pc = "start" -> CallAt(pos, [top EXCEPT !.pc = "ty"], "ctype", Nil)
         [] top.pc = "ty" ->
              Peek(pos,
                   IF Is("Ident", pos)
                   THEN ReturnAt(pos + 1,
                                 RetNode(local_vardef(tk(pos).name, None, ret.v)))
                   ELSE bad_token("variable name expected"))

expr_stmt ==
    /\ Running("expr_stmt")
    /\ CASE top.pc = "start" -> CallAt(pos, [top EXCEPT !.pc = "expr"], "expr", Nil)
         [] top.pc = "expr" ->
              expect("Semicolon", pos,
                ReturnAt(pos + 1, RetNode(new_expr("ExprStmt", ret.v))))

-----------------------------------------------------------------------------
(* stmt and compound_stmt.                                                 *)

\* ENV.lock().unwrap().typedefs.insert(name, ty) (line 599).
define_typedef(env, name, ty) == [env EXCEPT !.typedefs = Insert(env.typedefs, name, ty)]

\* Lines 683-684 of compound_stmt: a new frame in front of a clone of the environment.
push_env(env) == Env_new(Some(env))

\* pop_env that keeps the frame of the block.
pop_env_keep(env) == env

\* Lines 688-689 of compound_stmt: the environment becomes its own next.
pop_env(env) == env.next[1]

\* The loop of the `{` arm of stmt (lines 662-665) with the cursor at p.
stmt_block(f, stmts, p) ==
    consume("RightBrace", p,
            ReturnAt(p + 1, RetNode(CompStmt(stmts))),
            CallAt(p, [f EXCEPT !.pc = "block", !.stmts = stmts], "stmt", Nil))

\* null_stmt that leaves the cursor on the `;`.
null_stmt_stay(p) == ReturnAt(p, RetNode(Null))

\* The `;` arm of stmt (lines 667-670) with the cursor at p.
null_stmt(p) == ReturnAt(p + 1, RetNode(Null))

\* The statement stmt builds for `while` (lines 636-641).
while_node(cond, body) == For(Null, cond, Null, body)

\* The dispatch of stmt on tokens[pos] (line 594).
stmt_start(f) ==
    LET ty == tk(pos).ty
    IN  CASE ty = "Typedef" ->
               CallAt(pos + 1, [f EXCEPT !.pc = "typedef"], "decl", Nil)
          [] ty \in {"Int", "Char", "Struct"} ->
               CallAt(pos, [f EXCEPT !.pc = "ret"], "decl", Nil)
          [] ty = "If" ->
               expect("LeftParen", pos + 1,
                 CallAt(pos + 2, [f EXCEPT !.pc = "if_cond"], "expr", Nil))
          [] ty = "For" ->
               expect("LeftParen", pos + 1,
                 Peek(pos + 2,
                   CallAt(pos + 2, [f EXCEPT !.pc = "for_init"],
                          IF is_typename(tk(pos + 2)) THEN "decl" ELSE "expr_stmt",
                          Nil)))
          [] ty = "While" ->
               expect("LeftParen", pos + 1,
                 CallAt(pos + 2, [f EXCEPT !.pc = "while_cond"], "expr", Nil))
          [] ty = "Do" ->
               CallAt(pos + 1, [f EXCEPT !.pc = "do_body"], "stmt", Nil)
          [] ty = "Return" ->
               CallAt(pos + 1, [f EXCEPT !.pc = "return"], "expr", Nil)
          [] ty = "LeftBrace" ->
               stmt_block([f EXCEPT !.entry_env = ENV], << >>, pos + 1)
          [] ty = "Semicolon" -> null_stmt(pos)
          [] OTHER ->
               CallAt(pos, [f EXCEPT !.pc = "ret"],
                      IF is_typename(tk(pos)) THEN "decl" ELSE "expr_stmt", Nil)

\* stmt after the decl of a typedef returned (lines 598-603).
stmt_typedef(node) ==
    IF node.op = "Vardef"
    THEN Step(pos, define_typedef(ENV, node.name, node.ty), Pop, RetNode(Null))
    ELSE Panic("unreachable")

stmt ==
    /\ Running("stmt")
    /\ LET f == top
           r == ret.v
       IN  CASE f.pc = "start" -> Peek(pos, stmt_start(f))
             [] f.pc = "typedef" -> stmt_typedef(r)
             [] f.pc = "ret" -> ReturnAt(pos, ret)
             [] f.pc = "if_cond" ->
                  expect("RightParen", pos,
                    CallAt(pos + 1, [f EXCEPT !.pc = "if_then", !.cond = r], "stmt", Nil))
             [] f.pc = "if_then" ->
                  consume("Else", pos,
                    CallAt(pos + 1, [f EXCEPT !.pc = "if_else", !.then = r], "stmt", Nil),
                    ReturnAt(pos, RetNode(If(f.cond, r, None))))
             [] f.pc = "if_else" ->
                  ReturnAt(pos, RetNode(If(f.cond, f.then, Some(r))))
             [] f.pc = "for_init" ->
                  CallAt(pos, [f EXCEPT !.pc = "for_cond", !.init = r], "expr", Nil)
             [] f.pc = "for_cond" ->
                  expect("Semicolon", pos,
                    CallAt(pos + 1, [f EXCEPT !.pc = "for_inc", !.cond = r], "expr", Nil))
             [] f.pc = "for_inc" ->
                  expect("RightParen", pos,
                    CallAt(pos + 1,
                           [f EXCEPT !.pc = "for_body", !.inc = new_expr("ExprStmt", r)],
                           "stmt", Nil))
             [] f.pc = "for_body" ->
                  ReturnAt(pos, RetNode(For(f.init, f.cond, f.inc, r)))
             [] f.pc = "while_cond" ->
                  expect("RightParen", pos,
                    CallAt(pos + 1, [f EXCEPT !.pc = "while_body", !.cond = r], "stmt", Nil))
             [] f.pc = "while_body" ->
                  ReturnAt(pos, RetNode(while_node(f.cond, r)))
             [] f.pc = "do_body" ->
                  expect("While", pos,
                    expect("LeftParen", pos + 1,
                      CallAt(pos + 2, [f EXCEPT !.pc = "do_cond", !.body = r], "expr", Nil)))
             [] f.pc = "do_cond" ->
                  expect("RightParen", pos,
                    expect("Semicolon", pos + 1,
                      ReturnAt(pos + 2, RetNode(DoWhile(f.body, r)))))
             [] f.pc = "return" ->
                  expect("Semicolon", pos,
                    ReturnAt(pos + 1, RetNode(new_expr("Return", r))))
             [] f.pc = "block" -> stmt_block(f, Append(f.stmts, r), pos)

\* The loop of compound_stmt and its end (lines 685-690); env is the
\* environment at the loop test and p the cursor.
compound_stmt_loop(f, stmts, env, p) ==
    consume("RightBrace", p,
            Step(p + 1, pop_env(env), Pop, RetNode(CompStmt(stmts))),
            Step(p, env,
                 Append(Replace([f EXCEPT !.pc = "stmt", !.stmts = stmts]),
                        NewFrame("stmt", p, Nil)),
                 ret))

compound_stmt ==
    /\ Running("compound_stmt")
    /\ CASE top.pc = "start" ->
              compound_stmt_loop([top EXCEPT !.entry_env = ENV], << >>, push_env(ENV), pos)
         [] top.pc = "stmt" ->
              compound_stmt_loop(top, Append(top.stmts, ret.v), ENV, pos)

-----------------------------------------------------------------------------
(* The expression ladder: primary .. expr.                                 *)

primary_start(f) ==
    LET t == tk(pos)
        p == pos + 1
    IN  CASE t.ty = "Num" -> ReturnAt(p, RetNode(WithTy(Num(t.val), int_ty)))
          [] t.ty = "Str" ->
               ReturnAt(p, RetNode(WithTy(Str(t.name, t.val),
                                          ary_of(char_ty, Len(t.name)))))
          [] t.ty = "Ident" ->
               consume("LeftParen", p,
                 consume("RightParen", p + 1,
                   ReturnAt(p + 2, RetNode(Call(t.name, << >>))),
                   CallAt(p + 1, [f EXCEPT !.pc = "arg", !.name = t.name], "assign", Nil)),
                 ReturnAt(p, RetNode(Ident(t.name))))
          [] t.ty = "LeftParen" ->
               consume("LeftBrace", p,
                 CallAt(p + 1, [f EXCEPT !.pc = "stmt_expr"], "compound_stmt", Nil),
                 CallAt(p, [f EXCEPT !.pc = "paren"], "expr", Nil))
          [] OTHER -> bad_token("number expected")

primary ==
    /\ Running("primary")
    /\ CASE top.pc = "start" -> Peek(pos, primary_start(top))
         [] top.pc = "arg" ->
              LET args == Append(top.args, ret.v)
              IN  consume("Comma", pos,
                    CallAt(pos + 1, [top EXCEPT !.args = args], "assign", Nil),
                    expect("RightParen", pos,
                      ReturnAt(pos + 1, RetNode(Call(top.name, args)))))
         [] top.pc = "stmt_expr" ->
              expect("RightParen", pos,
                ReturnAt(pos + 1, RetNode(new_expr("StmtExpr", ret.v))))
         [] top.pc = "paren" ->
              expect("RightParen", pos, ReturnAt(pos + 1, ret))

\* ident(tokens, pos) with the cursor at p, inside postfix: A goes on with p + 1.
ident(p, A) ==
    Peek(p, IF Is("Ident", p) THEN A ELSE bad_token("variable name expected"))

\* One turn of the loop of postfix (lines 297-321) with the cursor at p.
postfix_loop(f, lhs, p) ==
    Peek(p,
      CASE Is("Dot", p) ->
             ident(p + 1,
               GotoAt(p + 2, [f EXCEPT !.pc = "loop",
                                       !.lhs = Dot(lhs, tk(p + 1).name, 0)]))
        [] Is("Arrow", p) ->
             ident(p + 1,
               GotoAt(p + 2, [f EXCEPT !.pc = "loop",
                                       !.lhs = Dot(new_expr("Deref", lhs),
                                                   tk(p + 1).name, 0)]))
        [] Is("LeftBracket", p) ->
             CallAt(p + 1, [f EXCEPT !.pc = "index", !.lhs = lhs], "assign", Nil)
        [] OTHER -> ReturnAt(p, RetNode(lhs)))

postfix ==
    /\ Running("postfix")
    /\ CASE top.pc = "start" -> CallAt(pos, [top EXCEPT !.pc = "lhs"], "primary", Nil)
         [] top.pc = "lhs" -> postfix_loop(top, ret.v, pos)
         [] top.pc = "loop" -> postfix_loop(top, top.lhs, pos)
         [] top.pc = "index" ->
              expect("RightBracket", pos,
                GotoAt(pos + 1,
                       [top EXCEPT !.pc = "loop",
                                   !.lhs = new_expr("Deref",
                                             new_binop("Plus", top.lhs, ret.v))]))

\* The node type unary builds for a prefix operator token.
unary_op(ty) ==
    CASE ty = "Minus" -> "Neg"
      [] ty = "Mul" -> "Deref"
      [] ty = "And" -> "Addr"
      [] OTHER -> ty

unary ==
    /\ Running("unary")
    /\ CASE top.pc = "start" ->
              Peek(pos,
                IF tk(pos).ty \in {"Minus", "Mul", "And", "Exclamation", "Sizeof", "Alignof"}
                THEN CallAt(pos + 1,
                            [top EXCEPT !.pc = "operand", !.op = unary_op(tk(pos).ty)],
                            "unary", Nil)
                ELSE CallAt(pos, [top EXCEPT !.pc = "ret"], "postfix", Nil))
         [] top.pc = "operand" -> ReturnAt(pos, RetNode(new_expr(top.op, ret.v)))
         [] top.pc = "ret" -> ReturnAt(pos, ret)

\* The folding loop shared by mul, add, shift, equality, bit_and, bit_xor,
\* bit_or, logand and logor: with lhs folded so far, an operator of ops is
\* consumed and rest parses its right operand, or lhs is returned.
level_loop(f, lhs, rest, ops) ==
    Peek(pos,
      IF tk(pos).ty \in ops
      THEN CallAt(pos + 1, [f EXCEPT !.pc = "rhs", !.lhs = lhs, !.op = tk(pos).ty],
                  rest, Nil)
      ELSE ReturnAt(pos, RetNode(lhs)))

\* A level whose first operand is parsed by first and the others by rest.
level(first, rest, ops) ==
    CASE top.pc = "start" -> CallAt(pos, [top EXCEPT !.pc = "lhs"], first, Nil)
      [] top.pc = "lhs" -> level_loop(top, ret.v, rest, ops)
      [] top.pc = "rhs" -> level_loop(top, new_binop(top.op, top.lhs, ret.v), rest, ops)

mul == Running("mul") /\ level("unary", "unary", {"Mul", "Div", "Mod"})

add == Running("add") /\ level("mul", "mul", {"Plus", "Minus"})

shift == Running("shift") /\ level("add", "add", {"SHL", "SHR"})

\* relational_fold without the operand swap of `>` and `>=`.
relational_fold_noswap(op, lhs, rhs) ==
    new_binop(IF op \in {"LeftAngleBracket", "RightAngleBracket"}
              THEN "LeftAngleBracket" ELSE "LE", lhs, rhs)

\* The node relational folds for the operator op (lines 392-399).
relational_fold(op, lhs, rhs) ==
    CASE op = "LeftAngleBracket" -> new_binop("LeftAngleBracket", lhs, rhs)
      [] op = "RightAngleBracket" -> new_binop("LeftAngleBracket", rhs, lhs)
      [] op = "LE" -> new_binop("LE", lhs, rhs)
      [] op = "GE" -> new_binop("LE", rhs, lhs)

RelationalOps == {"LeftAngleBracket", "RightAngleBracket", "LE", "GE"}

relational ==
    /\ Running("relational")
    /\ CASE top.pc = "start" -> CallAt(pos, [top EXCEPT !.pc = "lhs"], "shift", Nil)
         [] top.pc = "lhs" -> level_loop(top, ret.v, "shift", RelationalOps)
         [] top.pc = "rhs" ->
              level_loop(top, relational_fold(top.op, top.lhs, ret.v), "shift",
                         RelationalOps)

equality == Running("equality") /\ level("relational", "relational", {"EQ", "NE"})

bit_and == Running("bit_and") /\ level("equality", "equality", {"And"})

bit_xor == Running("bit_xor") /\ level("bit_and", "bit_and", {"Hat"})

bit_or == Running("bit_or") /\ level("bit_xor", "bit_xor", {"VerticalBar"})

logand == Running("logand") /\ level("bit_or", "logand", {"Logand"})

logor == Running("logor") /\ level("logand", "logand", {"Logor"})

conditional ==
    /\ Running("conditional")
    /\ CASE top.pc = "start" -> CallAt(pos, [top EXCEPT !.pc = "cond"], "logor", Nil)
         [] top.pc = "cond" ->
              consume("Question", pos,
                CallAt(pos + 1, [top EXCEPT !.pc = "then", !.cond = ret.v], "expr", Nil),
                ReturnAt(pos, ret))
         [] top.pc = "then" ->
              expect("Colon", pos,
                CallAt(pos + 1, [top EXCEPT !.pc = "els", !.then = ret.v],
                       "conditional", Nil))
         [] top.pc = "els" ->
              ReturnAt(pos, RetNode(Ternary(top.cond, top.then, ret.v)))

assign ==
    /\ Running("assign")
    /\ CASE top.pc = "start" -> CallAt(pos, [top EXCEPT !.pc = "lhs"], "conditional", Nil)
         [] top.pc = "lhs" ->
              consume("Equal", pos,
                CallAt(pos + 1, [top EXCEPT !.pc = "rhs", !.lhs = ret.v],
                       "conditional", Nil),
                ReturnAt(pos, ret))
         [] top.pc = "rhs" ->
              ReturnAt(pos, RetNode(new_binop("Equal", top.lhs, ret.v)))

expr ==
    /\ Running("expr")
    /\ CASE top.pc = "start" -> CallAt(pos, [top EXCEPT !.pc = "lhs"], "assign", Nil)
         [] top.pc = "lhs" ->
              consume("Comma", pos,
                CallAt(pos + 1, [top EXCEPT !.pc = "rhs", !.lhs = ret.v], "expr", Nil),
                ReturnAt(pos, ret))
         [] top.pc = "rhs" ->
              ReturnAt(pos, RetNode(new_binop("Comma", top.lhs, ret.v)))

-----------------------------------------------------------------------------
(* toplevel and parse.                                                     *)

\* global_scope that gives an extern variable the size of its type too.
global_scope_sized(is_extern, ty) == Global("", ty.size, is_extern)

\* The scope tag toplevel gives a global variable of type ty (lines 724-736).
global_scope(is_extern, ty) ==
    IF is_extern THEN Global("", 0, TRUE) ELSE Global("", ty.size, FALSE)

\* Lines 716-717 of toplevel with the cursor at p.
toplevel_body(f, p) ==
    expect("LeftBrace", p,
      CallAt(p + 1, [f EXCEPT !.pc = "body"], "compound_stmt", Nil))

\* toplevel after ctype returned (lines 696-722).
toplevel_name(f) ==
    Peek(pos,
      IF ~Is("Ident", pos)
      THEN bad_token("function or variable name expected")
      ELSE LET g == [f EXCEPT !.ty = ret.v, !.name = tk(pos).name]
               p == pos + 1
           IN  consume("LeftParen", p,
                 consume("RightParen", p + 1,
                   toplevel_body(g, p + 2),
                   CallAt(p + 1, [g EXCEPT !.pc = "param"], "param", Nil)),
                 CallAt(p, [g EXCEPT !.pc = "gvar"], "read_array", ret.v)))

\* The parameter loop of toplevel (lines 709-714) after a param returned.
toplevel_param(f) ==
    LET g == [f EXCEPT !.args = Append(f.args, ret.v)]
    IN  consume("Comma", pos,
          CallAt(pos + 1, g, "param", Nil),
          expect("RightParen", pos, toplevel_body(g, pos + 1)))

\* The global variable toplevel returns (lines 722-739); ret is read_array's type.
toplevel_gvar(f) ==
    expect("Semicolon", pos,
      ReturnAt(pos + 1,
               RetNode(WithTy(Vardef(f.name, None, global_scope(f.is_extern, ret.v)),
                              ret.v))))

toplevel ==
    /\ Running("toplevel")
    /\ CASE top.pc = "start" ->
              Peek(pos,
                LET is_extern == Is("Extern", pos)
                    p == IF is_extern THEN pos + 1 ELSE pos
                IN  CallAt(p, [top EXCEPT !.pc = "ty", !.is_extern = is_extern],
                           "ctype", Nil))
         [] top.pc = "ty" -> toplevel_name(top)
         [] top.pc = "param" -> toplevel_param(top)
         [] top.pc = "body" ->
              ReturnAt(pos, RetNode(Func(top.name, top.args, ret.v, 0)))
         [] top.pc = "gvar" -> toplevel_gvar(top)

\* The loop of parse (lines 756-759) with v collected so far.
parse_loop(f, v) ==
    IF Len(tokens) # pos
    THEN CallAt(pos, [f EXCEPT !.pc = "push", !.v = v], "toplevel", Nil)
    ELSE /\ status' = "done"
         /\ ret' = RetNodes(v)
         /\ stack' = << >>
         /\ UNCHANGED <<tokens, pos, ENV, err>>

parse ==
    /\ Running("parse")
    /\ CASE top.pc = "start" -> parse_loop(top, << >>)
         [] top.pc = "push" -> parse_loop(top, Append(top.v, ret.v))

-----------------------------------------------------------------------------
(* The inputs of parse.  A program is written as a sequence of C lexemes;  *)
(* Lex gives the tokens the tokenizer hands to parse for it.               *)

\* The TokenType of every keyword and punctuator.
TokenTypeOf ==
    [int |-> "Int", char |-> "Char", void |-> "Void", struct |-> "Struct",
     typedef |-> "Typedef", extern |-> "Extern", if |-> "If", else |-> "Else",
     for |-> "For", while |-> "While", do |-> "Do", return |-> "Return",
     sizeof |-> "Sizeof", _Alignof |-> "Alignof"]
    @@ ("(" :> "LeftParen") @@ (")" :> "RightParen")
    @@ ("{" :> "LeftBrace") @@ ("}" :> "RightBrace")
    @@ ("[" :> "LeftBracket") @@ ("]" :> "RightBracket")
    @@ (";" :> "Semicolon") @@ ("," :> "Comma") @@ ("." :> "Dot") @@ ("->" :> "Arrow")
    @@ ("+" :> "Plus") @@ ("-" :> "Minus") @@ ("*" :> "Mul") @@ ("/" :> "Div")
    @@ ("%" :> "Mod") @@ ("<<" :> "SHL") @@ (">>" :> "SHR")
    @@ ("<" :> "LeftAngleBracket") @@ (">" :> "RightAngleBracket")
    @@ ("<=" :> "LE") @@ (">=" :> "GE") @@ ("==" :> "EQ") @@ ("!=" :> "NE")
    @@ ("&" :> "And") @@ ("^" :> "Hat") @@ ("|" :> "VerticalBar")
    @@ ("&&" :> "Logand") @@ ("||" :> "Logor") @@ ("?" :> "Question")
    @@ (":" :> "Colon") @@ ("=" :> "Equal") @@ ("!" :> "Exclamation")

\* The value of every number lexeme the programs use.
NumberOf ==
    ("0" :> 0) @@ ("1" :> 1) @@ ("2" :> 2) @@ ("3" :> 3) @@ ("4" :> 4) @@ ("5" :> 5)

\* The string literal lexemes the programs use, with the decoded string.
StringOf == ("\"hi\"" :> "hi")

LexOne(w) ==
    IF w \in DOMAIN TokenTypeOf THEN Tok(TokenTypeOf[w])
    ELSE IF w \in DOMAIN NumberOf THEN NumTok(NumberOf[w])
    ELSE IF w \in DOMAIN StringOf THEN StrTok(StringOf[w], Len(StringOf[w]) + 1)
    ELSE IdentTok(w)

Lex(src) == [i \in 1..Len(src) |-> LexOne(src[i])]

\* int f() { body }
Fn(body) == <<"int", "f", "(", ")", "{">> \o body \o <<"}">>

\* All sequences over S of length 1..n.
SeqsUpTo(S, n) == UNION { [1..k -> S] : k \in 1..n }

RECURSIVE Flatten(_)
\* The concatenation of a sequence of sequences.
Flatten(ss) == IF ss = << >> THEN << >> ELSE Head(ss) \o Flatten(Tail(ss))

\* Bounds of the input families.
MaxBody == 3
MaxMembers == 3
MaxInit == 3

\* Function bodies of every shape, well formed or not: all lexeme sequences
\* over BodyAlphabet up to MaxBody.
BodyAlphabet == {"x", "1", ";", "{", "}", "(", ")", "int", ","}
AnyBodyPrograms == { Fn(body) : body \in SeqsUpTo(BodyAlphabet, MaxBody) }

\* Struct definitions with every member list up to MaxMembers.
MemberDecls ==
    { <<"char", "c", ";">>,
      <<"int", "i", ";">>,
      <<"int", "*", "p", ";">>,
      <<"char", "a", "[", "3", "]", ";">>,
      <<"struct", "{", "char", "c", ";", "int", "i", ";", "}", "s", ";">> }
StructSrc(ms) == <<"struct", "{">> \o Flatten(ms) \o <<"}", "s", ";">>
StructPrograms == { StructSrc(ms) : ms \in SeqsUpTo(MemberDecls, MaxMembers) }

\* The layout example: members of (size, align) (4,4), (1,1), (8,8).
LayoutExample == StructSrc(<< <<"int", "i", ";">>, <<"char", "c", ";">>, <<"int", "*", "p", ";">> >>)

\* Comparisons of every pair of shift-level operands, in both spellings.
ShiftOperands ==
    { <<"x">>, <<"1">>, <<"x", "+", "1">>, <<"y", "<<", "2">>, <<"-", "y">> }
RelationalSrc(a, b) ==
    Fn(a \o <<">">> \o b \o <<";">> \o b \o <<"<">> \o a \o <<";">>
       \o a \o <<">=">> \o b \o <<";">> \o b \o <<"<=">> \o a \o <<";">>)
RelationalPrograms == { RelationalSrc(a, b) : a \in ShiftOperands, b \in ShiftOperands }

\* int a[n] = { v1, ..., vk }; for every value list up to MaxInit.
InitValues == {"1", "2", "3", "x"}
RECURSIVE CommaList(_)
CommaList(vs) ==
    IF Len(vs) = 1 THEN <<Head(vs)>> ELSE <<Head(vs), ",">> \o CommaList(Tail(vs))
ArrayInitSrc(vs) ==
    Fn(<<"int", "a", "[", "3", "]", "=", "{">> \o CommaList(vs) \o <<"}", ";">>)
ArrayInitPrograms == { ArrayInitSrc(vs) : vs \in SeqsUpTo(InitValues, MaxInit) }

\* while (c) s  followed by  for (;c;) s.
LoopConds == { <<"x">>, <<"1">>, <<"x", "<", "y">> }
LoopBodies == { <<";">>, <<"x", ";">>, <<"{", "}">> }
WhileForSrc(c, s) ==
    Fn(<<"while", "(">> \o c \o <<")">> \o s \o <<"for", "(", ";">> \o c \o <<";", ")">> \o s)
WhileForPrograms == { WhileForSrc(c, s) : c \in LoopConds, s \in LoopBodies }
\* while (c) s alone, and for loops with all three clauses.
LoopPrograms ==
    { Fn(<<"while", "(">> \o c \o <<")">> \o s) : c \in LoopConds, s \in LoopBodies }
    \cup { Fn(<<"for", "(", "x", "=", "0", ";">> \o c \o <<";", "x", "=", "x", "+", "1", ")">> \o s)
           : c \in LoopConds, s \in LoopBodies }
    \cup { Fn(<<"for", "(", "int", "i", "=", "0", ";", "i", "<", "3", ";", "i", "=", "i", "+", "1", ")", ";">>),
           Fn(<<"do", "x", "=", "x", "-", "1", ";", "while", "(", "x", ")", ";">>),
           Fn(<<"if", "(", "x", ")", "return", "1", ";", "else", "return", "2", ";">>),
           Fn(<<"if", "(", "x", "==", "1", "||", "y", "!=", "2", "&&", "!", "x", ")", ";">>) }

\* Single top-level declarations: global variables with and without extern,
\* pointer stars and array brackets (size is the size of the declared type),
\* and functions.
GlobalBases ==
    { [src |-> <<"int">>, size |-> 4],
      [src |-> <<"char">>, size |-> 1],
      [src |-> <<"struct", "{", "char", "c", ";", "int", "i", ";", "}">>, size |-> 8] }
GlobalStars == { [src |-> << >>, ptr |-> FALSE], [src |-> <<"*">>, ptr |-> TRUE] }
GlobalBrackets ==
    { [src |-> << >>, n |-> 1],
      [src |-> <<"[", "2", "]">>, n |-> 2],
      [src |-> <<"[", "2", "]", "[", "3", "]">>, n |-> 6] }
GlobalDecls ==
    { [src |-> (IF e THEN <<"extern">> ELSE << >>) \o b.src \o s.src \o <<"g">>
               \o a.src \o <<";">>,
       is_extern |-> e,
       size |-> (IF s.ptr THEN 8 ELSE b.size) * a.n]
      : e \in BOOLEAN, b \in GlobalBases, s \in GlobalStars, a \in GlobalBrackets }
GlobalPrograms == { d.src : d \in GlobalDecls }

ParamLists ==
    { << >>, <<"int", "a">>, <<"int", "a", ",", "char", "*", "b">> }
FuncBodies ==
    { << >>, <<"return", "1", ";">>, <<"int", "v", "=", "2", ";", "return", "v", ";">> }
FuncSrc(e, ps, body) ==
    (IF e THEN <<"extern">> ELSE << >>) \o <<"int", "f", "(">> \o ps \o <<")", "{">>
    \o body \o <<"}">>
FuncPrograms ==
    { FuncSrc(e, ps, body) : e \in BOOLEAN, ps \in ParamLists, body \in FuncBodies }

\* Typedefs and struct tags in nested blocks and scopes.
ScopePrograms ==
    { Fn(<<"{", "typedef", "int", "T", ";", "}", "T", ";">>),
      Fn(<<"{", "typedef", "int", "T", ";", "}", "T", "x", ";">>),
      Fn(<<"(", "{", "typedef", "int", "T", ";", "T", "v", ";", "}", ")", ";", "T", ";">>),
      Fn(<<"typedef", "int", "T", ";", "T", "v", ";", "{", "T", "w", ";", "}">>),
      Fn(<<"typedef", "int", "T", ";", "(", "{", "typedef", "char", "U", ";", "U", "u", ";", "}", ")", ";", "T", "v", ";">>),
      Fn(<<"typedef", "int", "T", ";", "(", "{", "T", "v", ";", "}", ")", ";">>),
      Fn(<<"typedef", "int", "T", ";">>) \o <<"T", "g", ";">>,
      Fn(<<"struct", "S", "{", "int", "a", ";", "}", "v", ";", "struct", "S", "w", ";">>),
      Fn(<<"struct", "S", "{", "int", "a", ";", "}", "v", ";", "(", "{", "struct", "S", "w", ";", "}", ")", ";">>),
      <<"struct", "S", "{", "int", "a", ";", "char", "b", ";", "}", "g", ";">>
          \o <<"struct", "S", "h", ";">>,
      <<"struct", "S", "{", "int", "a", ";", "char", "b", ";", "}", "g", ";">>
          \o Fn(<<"struct", "S", "v", ";">>),
      <<"struct", "S", "*", "p", ";">>,
      <<"struct", "S", "g", ";">>,
      Fn(<<"struct", "S", "v", ";">>),
      Fn(<<"struct", "S", "*", "p", ";", "struct", "S", "{", "int", "x", ";", "}", "d", ";", "struct", "S", "v", ";">>),
      <<"struct", "{", "}", "g", ";">>,
      <<"struct", "{", "int", "a", "[", "2", "]", "=", "{", "1", ",", "2", "}", ";", "}", "g", ";">>,
      Fn(<<"typedef", "int", "a", "[", "2", "]", "=", "{", "1", "}", ";">>) }

\* Expressions through every level of the ladder.
ExprPrograms ==
    { Fn(<<"x", "=", "a", "?", "b", ":", "c", ",", "y", "=", "f", "(", "1", ",", "z", ")", ";">>),
      Fn(<<"p", "->", "m", ".", "n", "[", "1", "]", "=", "*", "q", "&", "r", "^", "s", "|", "t", ";">>),
      Fn(<<"return", "sizeof", "x", "+", "_Alignof", "y", "/", "2", "%", "3", ">>", "1", ";">>),
      Fn(<<"g", "(", ")", ";", "\"hi\"", ";", "(", "x", ")", ";", "&", "x", ";">>),
      Fn(<<"a", "&&", "b", "&&", "c", ";", "a", "-", "b", "-", "c", ";">>),
      Fn(<<"void", "*", "p", ";", "void", "v", ";">>),
      Fn(<<"int", "a", "[", "x", "]", ";">>),
      <<"int", "f", "(", "void", "v", ")", "{", "}">>,
      <<"void", "g", ";">>,
      <<"int">>, <<"int", "f", "(">>, <<"int", "f", "(", ")", "{">>, <<"x">> }

\* The operators of the binary levels of the ladder, multiplicative to comma.
LadderOps ==
    {"*", "/", "%", "+", "-", "<<", ">>", "<", "<=", ">", ">=", "==", "!=",
     "&", "^", "|", "&&", "||", ","}

\* `a op b op c;` followed by the grouping to the left, `(a op b) op c;`.
LeftAssocSrc(op) ==
    Fn(<<"a", op, "b", op, "c", ";", "(", "a", op, "b", ")", op, "c", ";">>)

\* The chains of assignment and conditional, followed by their grouping to
\* the right.
RightAssocSrc ==
    { Fn(<<"a", "=", "b", "=", "c", ";", "a", "=", "(", "b", "=", "c", ")", ";">>),
      Fn(<<"a", "?", "b", ":", "c", "?", "d", ":", "e", ";",
           "a", "?", "b", ":", "(", "c", "?", "d", ":", "e", ")", ";">>) }

AssocPrograms == { LeftAssocSrc(op) : op \in LadderOps } \cup RightAssocSrc

\* A variable of type void in each context that introduces a named variable:
\* local declaration, struct member, function parameter, global definition.
VoidPrograms ==
    { Fn(<<"void", "v", ";">>),
      Fn(<<"void", "v", "=", "1", ";">>),
      Fn(<<"(", "{", "void", "v", ";", "}", ")", ";">>),
      <<"struct", "{", "void", "m", ";", "}", "s", ";">>,
      <<"struct", "{", "int", "i", ";", "void", "m", ";", "}", "s", ";">>,
      <<"int", "f", "(", "void", "v", ")", "{", "}">>,
      <<"int", "f", "(", "int", "a", ",", "void", "v", ")", "{", "}">>,
      <<"void", "g", ";">>,
      <<"extern", "void", "g", ";">> }

\* Declarators with 2..MaxDims trailing brackets, as a global and as a local.
MaxDims == 3
ArrayLens == {"2", "3"}
ArrayBases == { [src |-> "int", ty |-> int_ty], [src |-> "char", ty |-> char_ty] }
DimLists == UNION { [1..k -> ArrayLens] : k \in 2..MaxDims }
RECURSIVE Brackets(_)
Brackets(dims) ==
    IF dims = << >> THEN << >> ELSE <<"[", Head(dims), "]">> \o Brackets(Tail(dims))
ArrayDeclSrc(b, dims, is_local) ==
    LET d == <<b.src, "a">> \o Brackets(dims) \o <<";">>
    IN  IF is_local THEN Fn(d) ELSE d
ArrayDecls ==
    { [src |-> ArrayDeclSrc(b, dims, l), base |-> b.ty, dims |-> dims, is_local |-> l]
      : b \in ArrayBases, dims \in DimLists, l \in BOOLEAN }
ArrayDeclPrograms == { d.src : d \in ArrayDecls }

ProgramSources ==
    AnyBodyPrograms \cup StructPrograms \cup RelationalPrograms \cup ArrayInitPrograms
    \cup WhileForPrograms \cup LoopPrograms \cup GlobalPrograms \cup FuncPrograms
    \cup ScopePrograms \cup ExprPrograms \cup AssocPrograms
    \cup VoidPrograms \cup ArrayDeclPrograms

Programs == { Lex(src) : src \in ProgramSources }

-----------------------------------------------------------------------------
Init ==
    /\ tokens \in Programs
    /\ pos = 0
    /\ ENV = Env_new(None)
    /\ stack = <<NewFrame("parse", 0, Nil)>>
    /\ ret = [k |-> "none", v |-> None]
    /\ status = "running"
    /\ err = ""

Next ==
    \/ parse
    \/ toplevel
    \/ ctype
    \/ read_type
    \/ read_array
    \/ decl
    \/ array_init_rval
    \/ param
    \/ expr_stmt
    \/ stmt
    \/ compound_stmt
    \/ primary
    \/ postfix
    \/ unary
    \/ mul
    \/ add
    \/ shift
    \/ relational
    \/ equality
    \/ bit_and
    \/ bit_xor
    \/ bit_or
    \/ logand
    \/ logor
    \/ conditional
    \/ assign
    \/ expr

Spec == Init /\ [][Next]_vars

\* parse runs on one thread and nothing else can be scheduled: a step that
\* can be taken is taken.
FairSpec == Spec /\ WF_vars(Next)

Halted == status \in {"done", "abort"}

\* Debugging aid: the final states.

-----------------------------------------------------------------------------
(* Notions the properties share.                                           *)

\* The step returns from the running frame of fn to its caller.
ReturnsFrom(fn) ==
    /\ Running(fn)
    /\ status' = "running"
    /\ stack' = Pop

\* The environment when the running block was entered (the frame records it
\* when it goes past its first statement).
EntryEnv == IF top.pc = "start" THEN ENV ELSE top.entry_env

RECURSIVE ChainTypedefs(_)
\* The typedef names bound in some frame of the chain of env.
ChainTypedefs(env) ==
    DOMAIN env.typedefs
    \cup (IF env.next = None THEN {} ELSE ChainTypedefs(env.next[1]))

RECURSIVE ChainTags(_)
\* The struct tags bound in some frame of the chain of env.
ChainTags(env) ==
    DOMAIN env.tags \cup (IF env.next = None THEN {} ELSE ChainTags(env.next[1]))

\* The nodes parse returned.
Result == ret.v

\* The statements of the body of the first function parse returned.
BodyStmts == Result[1].body.stmts

Done == status = "done"

-----------------------------------------------------------------------------
(* C1: typedef scoping.                                                    *)

\* The step consumes the closing brace of a block: compound_stmt returns, or
\* the `{` arm of stmt returns its CompStmt.
ClosesBlock ==
    \/ ReturnsFrom("compound_stmt")
    \/ /\ ReturnsFrom("stmt")
       /\ top.pc \in {"start", "block"}
       /\ ret'.v.op = "CompStmt"

\* C1: when the closing brace of a block (function body, nested compound
\* statement, statement-expression) has been consumed, no identifier that was
\* not a type name when the block was entered is a type name: the typedefs
\* registered inside the block are gone.
C1_TypedefScoping ==
    [][ClosesBlock => DOMAIN ENV'.typedefs \subseteq DOMAIN EntryEnv.typedefs]_vars

-----------------------------------------------------------------------------
(* C2: struct layout.                                                      *)

\* m is the least multiple of align that is at least x.
IsRoundedUp(m, x, align) ==
    /\ m % align = 0
    /\ m >= x
    /\ m - x < align

\* The running offset before member i: the end of member i - 1.
EndOfPrevious(members, i) ==
    IF i = 1 THEN 0 ELSE members[i - 1].scope.offset + members[i - 1].ty.size

LayoutOK(ty) ==
    LET ms == ty.members
        n == Len(ms)
    IN  /\ \A i \in 1..n :
              IsRoundedUp(ms[i].scope.offset, EndOfPrevious(ms, i), ms[i].ty.align)
        /\ \A i \in 1..n : ms[i].ty.align <= ty.align
        /\ \E i \in 1..n : ms[i].ty.align = ty.align
        /\ IsRoundedUp(ty.size, EndOfPrevious(ms, n + 1), ty.align)

\* read_type has returned a struct type whose members all have a size.
ReturnedStruct ==
    /\ ret.k = "opt_type"
    /\ ret.v # None
    /\ ret.v[1].ty = "Struct"
    /\ ret.v[1].members # << >>
    /\ \A i \in 1..Len(ret.v[1].members) : ret.v[1].members[i].ty.align > 0

\* C2: every struct type read_type returns for a non-empty member list has
\* each member at the running offset rounded up to the member's alignment,
\* align the largest member alignment and size the final running offset
\* rounded up to align; members (4,4), (1,1), (8,8) get offsets 0, 4, 8,
\* size 16 and align 8.
C2_StructLayout ==
    /\ ReturnedStruct => LayoutOK(ret.v[1])
    /\ (Done /\ tokens = Lex(LayoutExample)) =>
          LET ty == Result[1].ty
          IN  /\ ty.members[1].scope.offset = 0
              /\ ty.members[2].scope.offset = 4
              /\ ty.members[3].scope.offset = 8
              /\ ty.size = 16
              /\ ty.align = 8

\* A struct with padding before a member and at its end has been laid out.
C2_Witness ==
    /\ ReturnedStruct
    /\ Len(ret.v[1].members) = 3
    /\ ret.v[1].members[2].scope.offset = 4
    /\ ret.v[1].members[3].scope.offset = 8
    /\ ret.v[1].size = 16

-----------------------------------------------------------------------------
(* C3: comparison normalization.                                           *)

GreaterTags == {"RightAngleBracket", "GE"}

IsGreaterNode(node) ==
    /\ node.op = "BinOp"
    /\ node.tok \in GreaterTags

\* No node a function holds as its folded lhs, and no node returned, is a
\* BinOp tagged `>` or `>=` (every node is built in one of these places).
NoGreaterTag ==
    /\ \A i \in 1..Len(stack) : "lhs" \in DOMAIN stack[i] => ~IsGreaterNode(stack[i].lhs)
    /\ ret.k = "node" => ~IsGreaterNode(ret.v)

RelationalTokens == { Lex(src) : src \in RelationalPrograms }

\* C3: for shift-level operands a and b, `a > b` parses to the tree of
\* `b < a` (tag `<`) and `a >= b` to the tree of `b <= a` (tag `<=`); no
\* BinOp node carries the `>` or `>=` tag.
C3_Normalization ==
    /\ NoGreaterTag
    /\ (Halted /\ tokens \in RelationalTokens) =>
          /\ Done
          /\ Len(BodyStmts) = 4
          /\ BodyStmts[1] = BodyStmts[2]
          /\ BodyStmts[3] = BodyStmts[4]
          /\ BodyStmts[1].expr.op = "BinOp"
          /\ BodyStmts[1].expr.tok = "LeftAngleBracket"
          /\ BodyStmts[3].expr.op = "BinOp"
          /\ BodyStmts[3].expr.tok = "LE"

\* `x + 1 > y << 2` and its three other spellings have been parsed.
C3_Witness ==
    /\ Done
    /\ tokens = Lex(RelationalSrc(<<"x", "+", "1">>, <<"y", "<<", "2">>))
    /\ BodyStmts[1].expr.tok = "LeftAngleBracket"
    /\ BodyStmts[1].expr.lhs.tok = "SHL"
    /\ BodyStmts[1].expr.rhs.tok = "Plus"

-----------------------------------------------------------------------------
(* C4: array-initializer desugaring.                                       *)

ArrayInitTokens == { Lex(src) : src \in ArrayInitPrograms }

\* In Lex(ArrayInitSrc(vs)): the number k of values and the token of the i-th.
InitCount == (Len(tokens) - 14) \div 2
InitToken(i) == tokens[11 + 2 * i]

\* The node primary returns for a number or identifier token.
ValueNode(t) == IF t.ty = "Num" THEN WithTy(Num(t.val), int_ty) ELSE Ident(t.name)

\* The statement *(a + i) = v for the i-th value (i from 1), i.e. index i - 1.
ExpectedInit(i) ==
    new_expr("ExprStmt",
             new_binop("Equal",
                       new_expr("Deref", new_binop("Plus", Ident("a"), Num(i - 1))),
                       ValueNode(InitToken(i))))

ExpectedArrayDecl == WithTy(Vardef("a", None, Local(0)), ary_of(int_ty, 3))

\* C4 as claimed: `int a[3] = {v1, ..., vk};` parses to one VecStmt holding
\* the bare Vardef of a followed by the k expression-statements
\* *(a + i) = v, i = 0 .. k-1.
C4_FlatDesugaring ==
    (Halted /\ tokens \in ArrayInitTokens) =>
        /\ Done
        /\ BodyStmts[1].op = "VecStmt"
        /\ Len(BodyStmts[1].stmts) = InitCount + 1
        /\ BodyStmts[1].stmts[1] = ExpectedArrayDecl
        /\ \A i \in 1..InitCount : BodyStmts[1].stmts[i + 1] = ExpectedInit(i)

\* C4 amended: the VecStmt holds two nodes, the bare Vardef of a and a
\* second VecStmt that holds the k expression-statements *(a + i) = v,
\* i = 0 .. k-1, in source order.
C4_NestedDesugaring ==
    (Halted /\ tokens \in ArrayInitTokens) =>
        /\ Done
        /\ Len(BodyStmts) = 1
        /\ BodyStmts[1].op = "VecStmt"
        /\ Len(BodyStmts[1].stmts) = 2
        /\ BodyStmts[1].stmts[1] = ExpectedArrayDecl
        /\ BodyStmts[1].stmts[2].op = "VecStmt"
        /\ Len(BodyStmts[1].stmts[2].stmts) = InitCount
        /\ \A i \in 1..InitCount : BodyStmts[1].stmts[2].stmts[i] = ExpectedInit(i)

\* `int a[3] = {1, 2, 3};` has been parsed.
C4_Witness ==
    /\ Done
    /\ tokens = Lex(ArrayInitSrc(<<"1", "2", "3">>))
    /\ Len(BodyStmts[1].stmts[2].stmts) = 3

-----------------------------------------------------------------------------
(* C5: incomplete struct type.                                             *)

\* read_type is about to read `struct Tag` that is followed by no member
\* list, and no frame of the environment binds Tag.
UnresolvedStructRef ==
    /\ Running("read_type")
    /\ top.pc = "start"
    /\ Is("Struct", pos)
    /\ ~Oob(pos + 2)
    /\ Is("Ident", pos + 1)
    /\ ~Is("LeftBrace", pos + 2)
    /\ tk(pos + 1).name \notin ChainTags(ENV)

\* C5: read_type on `struct Tag` with no member list and no resolvable
\* definition of Tag aborts with "incomplete type".
C5_IncompleteType ==
    [][UnresolvedStructRef => (status' = "abort" /\ err' = "incomplete type")]_vars

-----------------------------------------------------------------------------
(* C6: while / for equivalence.                                            *)

WhileForTokens == { Lex(src) : src \in WhileForPrograms }

\* C6: `while (c) s` and `for (;c;) s` both parse, to the same For node with
\* Null init and increment.
C6_WhileForEquivalence ==
    (Halted /\ tokens \in WhileForTokens) =>
        /\ Done
        /\ Len(BodyStmts) = 2
        /\ BodyStmts[1] = BodyStmts[2]
        /\ BodyStmts[1].op = "For"
        /\ BodyStmts[1].init = Null
        /\ BodyStmts[1].inc = Null

-----------------------------------------------------------------------------
(* C7: the result of a single top-level declaration.                       *)

FuncTokens == { Lex(src) : src \in FuncPrograms }

\* The scope tag claimed for the global declaration d.
ExpectedScope(d) ==
    IF d.is_extern
    THEN [kind |-> "Global", label |-> "", size |-> 0, is_extern |-> TRUE]
    ELSE [kind |-> "Global", label |-> "", size |-> d.size, is_extern |-> FALSE]

\* C7: parse of one top-level declaration returns exactly one node: a Func
\* with stack size 0 when the name is followed by `(`, else a Vardef without
\* initializer whose scope is Global("", 0, true) with extern and
\* Global("", S, false) without, S the size of the declared type with its
\* array brackets.
C7_TopLevelShape ==
    Halted =>
        /\ \A d \in GlobalDecls :
              tokens = Lex(d.src) =>
                  /\ Done
                  /\ Len(Result) = 1
                  /\ Result[1].op = "Vardef"
                  /\ Result[1].name = "g"
                  /\ Result[1].init = None
                  /\ Result[1].scope = ExpectedScope(d)
                  /\ Result[1].ty.size = d.size
        /\ tokens \in FuncTokens =>
              /\ Done
              /\ Len(Result) = 1
              /\ Result[1].op = "Func"
              /\ Result[1].name = "f"
              /\ Result[1].stacksize = 0
              /\ Result[1].body.op = "CompStmt"

\* `extern int g[2][3];` has been parsed.
C7_Witness ==
    /\ Done
    /\ tokens = Lex(<<"extern", "int", "g", "[", "2", "]", "[", "3", "]", ";">>)
    /\ Result[1].scope.is_extern
    /\ Result[1].ty.size = 24

-----------------------------------------------------------------------------
(* C8: termination.                                                        *)

\* The functions that may return without having consumed a token: read_type
\* (no type name at the cursor) and read_array (no bracket).
MayConsumeNothing == {"read_type", "read_array"}

\* A function that returns a node or a type has moved the cursor forward, so
\* every turn of a loop around a call (top-level declarations, statements of
\* a block, struct members, initializer values) consumes a token.
ReturnProgress ==
    (/\ status = "running"
     /\ stack # << >>
     /\ status' = "running"
     /\ stack' = Pop
     /\ top.fn \notin MayConsumeNothing) => pos' > top.start

\* C8: parse ends, either returning the list of top-level nodes with the
\* cursor at the end of the tokens or aborting, and every function return
\* has consumed a token.
C8_Termination ==
    /\ <>Halted
    /\ [](Done => (pos = Len(tokens) /\ ret.k = "nodes" /\ stack = << >>))
    /\ [][ReturnProgress]_vars

\* parse has returned two top-level nodes with the cursor at the end.
C8_Witness ==
    /\ Done
    /\ Len(Result) = 2
    /\ pos = Len(tokens)
    /\ pos > 0

-----------------------------------------------------------------------------
(* C9: outward lookup through the scope chain.                             *)

\* C9: while parse runs, every typedef name bound in some frame of the
\* environment chain is a type name for is_typename, and every struct tag
\* bound in some frame of the chain is found by read_type.
C9_OutwardLookup ==
    status = "running" =>
        /\ \A name \in ChainTypedefs(ENV) : is_typename(IdentTok(name))
        /\ \A tag \in ChainTags(ENV) : tag \in DOMAIN ENV.tags

-----------------------------------------------------------------------------
(* C10: push / pop discipline.                                             *)

\* C10: when compound_stmt returns, the environment is the one it was
\* entered with, frame by frame; between top-level declarations and at the
\* end the environment is the root frame alone.
C10_PushPop ==
    /\ [][ReturnsFrom("compound_stmt") => ENV' = EntryEnv]_vars
    /\ []((Running("parse") \/ Done) => ENV.next = None)

\* A statement-expression that defined the typedef U has returned inside a
\* function body that defined the typedef T.
C10_Witness ==
    /\ Running("primary")
    /\ top.pc = "stmt_expr"
    /\ ret.k = "node"
    /\ ret.v.op = "CompStmt"
    /\ ret.v.stmts # << >>
    /\ ENV.next # None
    /\ DOMAIN ENV.typedefs = {"T"}

-----------------------------------------------------------------------------
(* C11: associativity of the expression ladder.                            *)

AssocTokens == { Lex(src) : src \in AssocPrograms }

\* C11: for every binary operator from `*` up to `,` the chain `a op b op c`
\* parses to the tree of `(a op b) op c`; `a = b = c` parses to the tree of
\* `a = (b = c)` and `a ? b : c ? d : e` to the tree of `a ? b : (c ? d : e)`.
C11_Associativity ==
    (Halted /\ tokens \in AssocTokens) =>
        /\ Done
        /\ Len(BodyStmts) = 2
        /\ BodyStmts[1] = BodyStmts[2]

-----------------------------------------------------------------------------
(* C12: void variables.                                                    *)

VoidTokens == { Lex(src) : src \in VoidPrograms }

\* A parsing function has returned the definition of a variable of type void.
ReturnedVoidVardef ==
    /\ ret.k = "node"
    /\ ret.v.op = "Vardef"
    /\ ret.v.ty.ty = "Void"

\* C12: a program that declares a variable of type void as a local, a struct
\* member, a function parameter or a global aborts, and no parsing function
\* ever returns a Vardef node of type void.
C12_VoidRejected ==
    /\ (Halted /\ tokens \in VoidTokens) => status = "abort"
    /\ ~ReturnedVoidVardef

-----------------------------------------------------------------------------
(* C13: nesting order of array dimensions.                                 *)

RECURSIVE OutermostFirst(_, _)
\* Array(length dims[1]) of Array(length dims[2]) of ... of base.
OutermostFirst(base, dims) ==
    IF dims = << >> THEN base
    ELSE ary_of(OutermostFirst(base, Tail(dims)), NumberOf[Head(dims)])

RECURSIVE Product(_)
Product(dims) == IF dims = << >> THEN 1 ELSE NumberOf[Head(dims)] * Product(Tail(dims))

\* The type of the variable the declaration d declares, in the result of parse.
DeclaredType(d) == IF d.is_local THEN BodyStmts[1].ty ELSE Result[1].ty

\* C13: `T a[n1][n2]...[nk]` declares a of type Array(n1) of Array(n2) of ...
\* of T (the first bracket is the outermost dimension), of size
\* T.size * n1 * ... * nk and alignment T.align.
C13_ArrayNesting ==
    \A d \in ArrayDecls :
        (Halted /\ tokens = Lex(d.src)) =>
            /\ Done
            /\ DeclaredType(d) = OutermostFirst(d.base, d.dims)
            /\ DeclaredType(d).size = d.base.size * Product(d.dims)
            /\ DeclaredType(d).align = d.base.align

=============================================================================
